---- MODULE Spec2Model ----
(***************************************************************************)
(* Task Management API (src/backend/main.py): a FastAPI application with a *)
(* relational store (table "tasks") and an optional Redis read cache.      *)
(* Each request handler is one action; the store, the cache and the clock *)
(* are the state, the reachability of store and cache during a request is  *)
(* an input of the handler.                                                *)
(***************************************************************************)
EXTENDS Integers, Sequences, FiniteSets, TLC

\* ---------------------------------------------------------------- bounds
\* Number of rows the id sequence of the table hands out.
MaxTasks == 2
\* Largest reading of the wall clock (datetime.utcnow), in clock ticks.
MaxClock == 1
\* Number of requests served in a run.
MaxRequests == 3
\* Number of reads in flight at a time when requests are served concurrently.
MaxReaders == 2

\* ------------------------------------------------------- program constants
\* expiry of a cached list and of a cached task, in seconds
TASK_EXPIRY == 300
\* expiry of the cached statistics, in seconds
STATS_EXPIRY == 60
\* default of the limit query parameter of the list endpoint
DEFAULT_LIMIT == 100

\* Python's None, and a field absent from a request body.
None == "None"
Missing == "Missing"

\* A request body: the fields of TaskCreate / TaskUpdate (None: not supplied;
\* Missing: the required title is absent).
Body(title, description, completed) ==
    [title |-> title, description |-> description, completed |-> completed]

\* Bodies of POST /api/tasks.
CreateBodies ==
    {Body(Missing, "B", None), Body("", None, None), Body("A", "B", None)}
\* Bodies of PUT /api/tasks/{id}; completed is Optional[bool].
UpdateBodies ==
    {Body(None, None, "True"), Body("", None, None), Body("C", None, None)}
\* (skip, limit) pairs of list requests: the defaults and one other page.
ListParams == {<<0, DEFAULT_LIMIT>>, <<1, 1>>}
TaskIds == 1..MaxTasks

VARIABLES
    store,         \* table "tasks": the rows in the order a scan returns them
    nextId,        \* next value of the primary-key sequence
    now,           \* current reading of datetime.utcnow
    redis_client,  \* module global: None, or the client made at startup
    cache,         \* contents of the Redis server: key -> [data, ttl]
    lastReq,       \* the request served last, and how many were served
    resp,          \* its response
    prev,          \* history: the write that the GET in lastReq came right after
    blindDeletes,  \* history: ids deleted while the Redis server was unreachable
    firstGet,      \* history: per id, what the first GET since the last write
                   \* or expiry returned with the cache reachable
    sessions,      \* number of store sessions (SessionLocal()) open
    pending,       \* the reads in flight between their store query and their
                   \* set_cache (none when requests are served one at a time)
    notFound,      \* history: ids a GET was answered 404 for
    cacheOutage    \* history: a request was served while the Redis server of
                   \* the client did not answer

vars == <<store, nextId, now, redis_client, cache, lastReq, resp, prev, blindDeletes,
          firstGet, sessions, pending, notFound, cacheOutage>>

\* ------------------------------------------------------------ str(), keys
\* str(n) inside the f-strings that build cache keys
Str(n) ==
    CASE n = 0 -> "0" [] n = 1 -> "1" [] n = 2 -> "2" [] n = 3 -> "3"
      [] n = 4 -> "4" [] n = 5 -> "5" [] n = DEFAULT_LIMIT -> "100"
      [] OTHER -> "n"

\* f"task:{task_id}", f"all:{skip}:{limit}", "stats": a key is the sequence of
\* its colon-separated parts.
TaskKey(task_id) == <<"task", Str(task_id)>>
ListKey(skip, limit) == <<"all", Str(skip), Str(limit)>>
StatsKey == <<"stats">>

get_cache_key(key) == <<"tasks">> \o key

\* KEYS comparing the pattern with the key literally, "*" no wildcard.
GlobMatch_Literal(pattern, key) == pattern = key

\* Redis glob matching of KEYS: "*" matches any rest, anything else itself.
RECURSIVE GlobMatch(_, _)
GlobMatch(pattern, key) ==
    IF pattern = <<>> THEN key = <<>>
    ELSE IF Head(pattern) = "*" THEN TRUE
    ELSE key # <<>> /\ Head(key) = Head(pattern)
         /\ GlobMatch(Tail(pattern), Tail(key))

\* ------------------------------------------------------------------ JSON
\* json.dumps(value, default=str): a datetime becomes its string form; a
\* dict, a list keep their shape.  A JSON text is [t, v] with t its shape.
DateStr(t) == <<"datetime", t>>
ParseDate(s) == s[2]

DumpTask(d) ==
    [id |-> d.id, title |-> d.title, description |-> d.description,
     completed |-> d.completed,
     created_at |-> DateStr(d.created_at), updated_at |-> DateStr(d.updated_at)]

\* Task(**cached): pydantic parses the date strings back.
LoadTask(j) ==
    [id |-> j.id, title |-> j.title, description |-> j.description,
     completed |-> j.completed,
     created_at |-> ParseDate(j.created_at), updated_at |-> ParseDate(j.updated_at)]

json_dumps_task(d) == [t |-> "dict", v |-> DumpTask(d)]
json_dumps_list(ds) == [t |-> "list", v |-> [i \in 1..Len(ds) |-> DumpTask(ds[i])]]
json_dumps_stats(s) == [t |-> "dict", v |-> s]

\* Python truth value of what json.loads returned (None when no entry).
Truthy(j) ==
    CASE j.t \in {"none", "exception"} -> FALSE
      [] j.t = "list" -> Len(j.v) > 0
      [] OTHER -> TRUE

PyNone == [t |-> "none", v |-> None]
\* An exception raised by a call, on its way out of the caller.
Raised == [t |-> "exception", v |-> None]

\* ------------------------------------------------------------ cache layer
\* Every handler is served in an environment: redis_up tells whether the calls
\* on the client reach the Redis server during the request, outage the step at
\* which the store stops answering ("none": it answers throughout).
CacheReachable(redis_up) == redis_client # None /\ redis_up

\* get_from_cache without "if redis_client" and without try/except: the error
\* of the call leaves the function.
get_from_cache_Unguarded(redis_up, key) ==
    IF redis_client # None /\ redis_up
    THEN IF get_cache_key(key) \in DOMAIN cache
         THEN cache[get_cache_key(key)].data
         ELSE PyNone
    ELSE Raised

\* get_from_cache: the loaded JSON, or None without client, on an error and
\* when the key holds nothing.
get_from_cache(redis_up, key) ==
    IF redis_client # None
    THEN IF redis_up
         THEN IF get_cache_key(key) \in DOMAIN cache
              THEN cache[get_cache_key(key)].data
              ELSE PyNone
         ELSE PyNone
    ELSE PyNone

\* set_cache writing under the bare key, without get_cache_key.
set_cache_BareKey(redis_up, c, key, data, expiry) ==
    IF redis_client # None /\ redis_up
    THEN [k \in DOMAIN c \cup {key} |->
            IF k = key THEN [data |-> data, ttl |-> expiry] ELSE c[k]]
    ELSE c

\* set_cache: the contents of the server after setex(key, expiry, dumps(value)).
set_cache(redis_up, c, key, data, expiry) ==
    IF redis_client # None
    THEN IF redis_up
         THEN [k \in DOMAIN c \cup {get_cache_key(key)} |->
                 IF k = get_cache_key(key) THEN [data |-> data, ttl |-> expiry]
                 ELSE c[k]]
         ELSE c
    ELSE c

\* clear_cache_pattern: the contents of the server after keys(pattern) and
\* delete(*keys).
clear_cache_pattern(redis_up, c, pattern) ==
    IF redis_client # None
    THEN IF redis_up
         THEN [k \in {x \in DOMAIN c : ~GlobMatch(get_cache_key(pattern), x)} |-> c[k]]
         ELSE c
    ELSE c

\* ------------------------------------------------------------------ store
\* A row of TaskDB; completed is the string flag, description NULL is None.
Row(id, title, description, completed, created_at, updated_at) ==
    [id |-> id, title |-> title, description |-> description,
     completed |-> completed, created_at |-> created_at, updated_at |-> updated_at]

StoredIds == {store[i].id : i \in 1..Len(store)}

\* db.query(TaskDB).filter(TaskDB.id == task_id).first(): the position of the
\* row, 0 when there is none.
QueryFirst(task_id) ==
    IF task_id \in StoredIds
    THEN CHOOSE i \in 1..Len(store) : store[i].id = task_id
    ELSE 0

Min(a, b) == IF a < b THEN a ELSE b

\* db.query(TaskDB).offset(skip).limit(limit).all()
QueryAll(skip, limit) == SubSeq(store, skip + 1, Min(skip + limit, Len(store)))

\* The completed count with the filter on the wrong flag.
CountCompleted_WrongFlag ==
    Cardinality({i \in 1..Len(store) : store[i].completed = "false"})

\* db.query(TaskDB).count() and the count of the rows flagged "true"
CountAll == Len(store)
CountCompleted == Cardinality({i \in 1..Len(store) : store[i].completed = "true"})

\* The dict a handler builds from a row (task_dict / task_data).
TaskDict(row) ==
    [id |-> row.id, title |-> row.title, description |-> row.description,
     completed |-> (row.completed = "true"),
     created_at |-> row.created_at, updated_at |-> row.updated_at]

\* round(completed / total * 100, 2), in hundredths of a percent.
CompletionRate(completed, total) ==
    IF total > 0 THEN (2 * completed * 10000 + total) \div (2 * total) ELSE 0

\* ------------------------------------------------------- request, response
Req(op, id, redis_up, outage) ==
    [n |-> lastReq.n + 1, op |-> op, id |-> id,
     cache_ok |-> CacheReachable(redis_up), db_ok |-> (outage = "none"),
     had_entry |-> (op \in {"GET", "PUT", "DELETE"}
                    /\ get_cache_key(TaskKey(id)) \in DOMAIN cache)]

NoReq ==
    [n |-> 0, op |-> "none", id |-> 0, cache_ok |-> FALSE, db_ok |-> TRUE,
     had_entry |-> FALSE]

NoPrev == [op |-> "none", id |-> 0, was_cached |-> FALSE]

\* What a GET finds the request before it to have been: a PUT or a DELETE
\* that succeeded with the cache reachable, or anything else.
Prev ==
    IF lastReq.op \in {"PUT", "DELETE"} /\ resp.status = 200 /\ lastReq.cache_ok
    THEN [op |-> lastReq.op, id |-> lastReq.id, was_cached |-> lastReq.had_entry]
    ELSE NoPrev

NoTask == [t |-> "none", v |-> None]
\* firstGet after a GET of task_id answered with response r.
NoteGet(task_id, redis_up, r) ==
    IF CacheReachable(redis_up) /\ r.status = 200 /\ firstGet[task_id].t = "none"
    THEN [firstGet EXCEPT ![task_id] = r.body]
    ELSE firstGet
\* firstGet after a write request.
NoteWrite == [id \in TaskIds |-> NoTask]

Response(status, kind, body) == [status |-> status, body |-> [t |-> kind, v |-> body]]

NotFound == Response(404, "detail", "Task not found")
\* An exception that leaves the handler: FastAPI answers 500.
ServerError == Response(500, "detail", "Internal Server Error")
\* Request validation failed (pydantic): FastAPI answers 422.
Unprocessable == Response(422, "detail", "validation error")

\* TaskCreate: title is a required str, description an optional str.
ValidTaskCreate(body) == body.title # Missing
\* TaskUpdate: every field is optional.
ValidTaskUpdate(body) == TRUE

\* ---------------------------------------------------------------- sessions
\* SessionLocal(): one more session open; db.close(): one fewer.
SessionLocal(n) == n + 1
db_close(n) == n - 1
\* get_db: the sessions open once a request that depends on it has completed.
\* The session is made before the handler runs and closed in the finally
\* clause, whether the handler returned or raised.
get_db(n) == db_close(SessionLocal(n))

\* No read is in flight.
NoPending == {}

\* cacheOutage after a request served with the Redis server answering
\* (redis_up) or not.
NoteCache(redis_up) == cacheOutage \/ (redis_client # None /\ ~redis_up)

\* ---------------------------------------------------------------- handlers
\* The table at startup (create_all keeps an existing table): empty, or with
\* the row an earlier run of the service left.
InitialTables == {<<>>, <<Row(1, "A", "B", "false", -1, -1)>>}

Init ==
    /\ store \in InitialTables
    /\ nextId = Len(store) + 1
    /\ now = 0
    /\ redis_client \in {None, "client"}
    /\ cache = <<>>
    /\ lastReq = NoReq
    /\ resp = Response(0, "none", None)
    /\ prev = NoPrev
    /\ blindDeletes = {}
    /\ firstGet = [id \in TaskIds |-> NoTask]
    /\ sessions = 0
    /\ pending = NoPending
    /\ notFound = {}
    /\ cacheOutage = FALSE

\* GET /api/tasks
get_tasks(skip, limit, redis_up, outage) ==
    LET cache_key == ListKey(skip, limit)
        cached_tasks == get_from_cache(redis_up, cache_key)
        tasks == QueryAll(skip, limit)
        tasks_data == [i \in 1..Len(tasks) |-> TaskDict(tasks[i])]
    IN  /\ lastReq.n < MaxRequests
        /\ lastReq' = Req("LIST", 0, redis_up, outage)
        /\ prev' = NoPrev
        /\ IF cached_tasks.t = "exception"
           THEN /\ resp' = ServerError
                /\ cache' = cache
           ELSE IF Truthy(cached_tasks)
           THEN /\ resp' = Response(200, "list",
                       [i \in 1..Len(cached_tasks.v) |-> LoadTask(cached_tasks.v[i])])
                /\ cache' = cache
           ELSE IF outage = "down"
           THEN /\ resp' = ServerError
                /\ cache' = cache
           ELSE /\ cache' = set_cache(redis_up, cache, cache_key,
                                      json_dumps_list(tasks_data), TASK_EXPIRY)
                /\ resp' = Response(200, "list", tasks_data)
        /\ sessions' = get_db(sessions)
        /\ cacheOutage' = NoteCache(redis_up)
        /\ UNCHANGED <<store, nextId, now, redis_client, blindDeletes, firstGet, pending,
                       notFound>>

\* get_task storing JSON null under the key before it raises the 404.
get_task_CachingNotFound(task_id, redis_up, outage) ==
    LET cache_key == TaskKey(task_id)
        cached_task == get_from_cache(redis_up, cache_key)
        i == QueryFirst(task_id)
        task_data == TaskDict(store[i])
    IN  /\ lastReq.n < MaxRequests
        /\ lastReq' = Req("GET", task_id, redis_up, outage)
        /\ prev' = Prev
        /\ IF cached_task.t = "exception"
           THEN /\ resp' = ServerError
                /\ cache' = cache
           ELSE IF Truthy(cached_task)
           THEN /\ resp' = Response(200, "task", LoadTask(cached_task.v))
                /\ cache' = cache
           ELSE IF outage = "down"
           THEN /\ resp' = ServerError
                /\ cache' = cache
           ELSE IF i = 0
           THEN /\ resp' = NotFound
                /\ cache' = set_cache(redis_up, cache, cache_key, PyNone, TASK_EXPIRY)
           ELSE /\ cache' = set_cache(redis_up, cache, cache_key,
                                      json_dumps_task(task_data), TASK_EXPIRY)
                /\ resp' = Response(200, "task", task_data)
        /\ firstGet' = NoteGet(task_id, redis_up, resp')
        /\ notFound' = IF resp'.status = 404 THEN notFound \cup {task_id} ELSE notFound
        /\ sessions' = get_db(sessions)
        /\ cacheOutage' = NoteCache(redis_up)
        /\ UNCHANGED <<store, nextId, now, redis_client, blindDeletes, pending>>

\* GET /api/tasks/{task_id}
get_task(task_id, redis_up, outage) ==
    LET cache_key == TaskKey(task_id)
        cached_task == get_from_cache(redis_up, cache_key)
        i == QueryFirst(task_id)
        task_data == TaskDict(store[i])
    IN  /\ lastReq.n < MaxRequests
        /\ lastReq' = Req("GET", task_id, redis_up, outage)
        /\ prev' = Prev
        /\ IF cached_task.t = "exception"
           THEN /\ resp' = ServerError
                /\ cache' = cache
           ELSE IF Truthy(cached_task)
           THEN /\ resp' = Response(200, "task", LoadTask(cached_task.v))
                /\ cache' = cache
           ELSE IF outage = "down"
           THEN /\ resp' = ServerError
                /\ cache' = cache
           ELSE IF i = 0
           THEN /\ resp' = NotFound
                /\ cache' = cache
           ELSE /\ cache' = set_cache(redis_up, cache, cache_key,
                                      json_dumps_task(task_data), TASK_EXPIRY)
                /\ resp' = Response(200, "task", task_data)
        /\ firstGet' = NoteGet(task_id, redis_up, resp')
        /\ notFound' = IF resp'.status = 404 THEN notFound \cup {task_id} ELSE notFound
        /\ sessions' = get_db(sessions)
        /\ cacheOutage' = NoteCache(redis_up)
        /\ UNCHANGED <<store, nextId, now, redis_client, blindDeletes, pending>>

\* The two column defaults of an INSERT (created_at, updated_at) each call
\* datetime.utcnow: the second reading is the first or a later one.
InsertDefaults == {<<now, t>> : t \in {now, Min(now + 1, MaxClock)}}

\* create_task clearing every key of the application, not only the lists.
InvalidateAfterCreate_AllKeys(redis_up, c) == clear_cache_pattern(redis_up, c, <<"*">>)

\* The invalidation that ends create_task.
InvalidateAfterCreate(redis_up, c) == clear_cache_pattern(redis_up, c, <<"all", "*">>)

\* POST /api/tasks
create_task(body, redis_up, outage) ==
    \E ts \in InsertDefaults :
    LET db_task == Row(nextId, body.title, body.description, "false", ts[1], ts[2])
        task_data == [id |-> db_task.id, title |-> db_task.title,
                      description |-> db_task.description, completed |-> FALSE,
                      created_at |-> db_task.created_at,
                      updated_at |-> db_task.updated_at]
        committed == outage # "down"
        refreshed == committed /\ outage # "refresh"
    IN  /\ lastReq.n < MaxRequests
        /\ nextId <= MaxTasks
        /\ lastReq' = Req("POST", 0, redis_up, outage)
        /\ prev' = NoPrev
        /\ firstGet' = NoteWrite
        /\ IF ~ValidTaskCreate(body)
           THEN /\ resp' = Unprocessable
                /\ UNCHANGED <<store, nextId, now, cache>>
           ELSE /\ store' = IF committed THEN Append(store, db_task) ELSE store
                /\ nextId' = IF committed THEN nextId + 1 ELSE nextId
                /\ now' = IF committed THEN ts[2] ELSE now
                /\ cache' = IF refreshed THEN InvalidateAfterCreate(redis_up, cache)
                            ELSE cache
                /\ resp' = IF refreshed THEN Response(201, "task", task_data)
                           ELSE ServerError
        /\ sessions' = get_db(sessions)
        /\ cacheOutage' = NoteCache(redis_up)
        /\ UNCHANGED <<redis_client, blindDeletes, pending, notFound>>

\* update_task assigning created_at as well as updated_at.
UpdatedRow_TouchesCreatedAt(row, body) ==
    [row EXCEPT
       !.title = IF body.title # None THEN body.title ELSE @,
       !.description = IF body.description # None THEN body.description ELSE @,
       !.completed = IF body.completed # None
                     THEN (IF body.completed = "True" THEN "true" ELSE "false")
                     ELSE @,
       !.created_at = now,
       !.updated_at = now]

\* The row after the assignments of update_task.
UpdatedRow(row, body) ==
    [row EXCEPT
       !.title = IF body.title # None THEN body.title ELSE @,
       !.description = IF body.description # None THEN body.description ELSE @,
       !.completed = IF body.completed # None
                     THEN (IF body.completed = "True" THEN "true" ELSE "false")
                     ELSE @,
       !.updated_at = now]

\* update_task without its second call, clear_cache_pattern(f"task:{task_id}").
InvalidateAfterUpdate_ListOnly(redis_up, c, task_id) ==
    clear_cache_pattern(redis_up, c, <<"all", "*">>)

\* The invalidation that ends update_task.
InvalidateAfterUpdate(redis_up, c, task_id) ==
    clear_cache_pattern(redis_up, clear_cache_pattern(redis_up, c, <<"all", "*">>),
                        TaskKey(task_id))

\* PUT /api/tasks/{task_id}
update_task(task_id, body, redis_up, outage) ==
    LET i == QueryFirst(task_id)
        db_task == UpdatedRow(store[i], body)
        committed == outage # "down"
        refreshed == committed /\ outage # "refresh"
    IN  /\ lastReq.n < MaxRequests
        /\ lastReq' = Req("PUT", task_id, redis_up, outage)
        /\ prev' = NoPrev
        /\ firstGet' = NoteWrite
        /\ IF ~ValidTaskUpdate(body)
           THEN /\ resp' = Unprocessable
                /\ UNCHANGED <<store, cache>>
           ELSE IF outage = "down"
           THEN /\ resp' = ServerError
                /\ UNCHANGED <<store, cache>>
           ELSE IF i = 0
           THEN /\ resp' = NotFound
                /\ UNCHANGED <<store, cache>>
           ELSE /\ store' = IF committed THEN [store EXCEPT ![i] = db_task] ELSE store
                /\ cache' = IF refreshed
                            THEN InvalidateAfterUpdate(redis_up, cache, task_id)
                            ELSE cache
                /\ resp' = IF refreshed THEN Response(200, "task", TaskDict(db_task))
                           ELSE ServerError
        /\ sessions' = get_db(sessions)
        /\ cacheOutage' = NoteCache(redis_up)
        /\ UNCHANGED <<nextId, now, redis_client, blindDeletes, pending, notFound>>

\* delete_task without its second call, clear_cache_pattern(f"task:{task_id}").
InvalidateAfterDelete_ListOnly(redis_up, c, task_id) ==
    clear_cache_pattern(redis_up, c, <<"all", "*">>)

\* The invalidation that ends delete_task.
InvalidateAfterDelete(redis_up, c, task_id) ==
    clear_cache_pattern(redis_up, clear_cache_pattern(redis_up, c, <<"all", "*">>),
                        TaskKey(task_id))

\* delete_task with the two clear_cache_pattern calls moved before db.commit().
delete_task_InvalidateFirst(task_id, redis_up, outage) ==
    LET i == QueryFirst(task_id)
        committed == outage # "down"
    IN  /\ lastReq.n < MaxRequests
        /\ lastReq' = Req("DELETE", task_id, redis_up, outage)
        /\ prev' = NoPrev
        /\ firstGet' = NoteWrite
        /\ IF i = 0
           THEN /\ resp' = IF committed THEN NotFound ELSE ServerError
                /\ UNCHANGED <<store, cache, blindDeletes>>
           ELSE /\ store' = IF committed
                            THEN SubSeq(store, 1, i - 1) \o SubSeq(store, i + 1, Len(store))
                            ELSE store
                /\ cache' = InvalidateAfterDelete(redis_up, cache, task_id)
                /\ blindDeletes' = IF committed /\ redis_client # None /\ ~redis_up
                                   THEN blindDeletes \cup {task_id}
                                   ELSE blindDeletes
                /\ resp' = IF committed
                           THEN Response(200, "message", "Task deleted successfully")
                           ELSE ServerError
        /\ sessions' = get_db(sessions)
        /\ cacheOutage' = NoteCache(redis_up)
        /\ UNCHANGED <<nextId, now, redis_client, pending, notFound>>

\* DELETE /api/tasks/{task_id}
delete_task(task_id, redis_up, outage) ==
    LET i == QueryFirst(task_id)
        committed == outage # "down"
    IN  /\ lastReq.n < MaxRequests
        /\ lastReq' = Req("DELETE", task_id, redis_up, outage)
        /\ prev' = NoPrev
        /\ firstGet' = NoteWrite
        /\ IF outage = "down"
           THEN /\ resp' = ServerError
                /\ UNCHANGED <<store, cache, blindDeletes>>
           ELSE IF i = 0
           THEN /\ resp' = NotFound
                /\ UNCHANGED <<store, cache, blindDeletes>>
           ELSE /\ store' = IF committed
                            THEN SubSeq(store, 1, i - 1) \o SubSeq(store, i + 1, Len(store))
                            ELSE store
                /\ cache' = IF committed
                            THEN InvalidateAfterDelete(redis_up, cache, task_id)
                            ELSE cache
                /\ blindDeletes' = IF committed /\ redis_client # None /\ ~redis_up
                                   THEN blindDeletes \cup {task_id}
                                   ELSE blindDeletes
                /\ resp' = IF committed
                           THEN Response(200, "message", "Task deleted successfully")
                           ELSE ServerError
        /\ sessions' = get_db(sessions)
        /\ cacheOutage' = NoteCache(redis_up)
        /\ UNCHANGED <<nextId, now, redis_client, pending, notFound>>

\* GET /api/stats
get_stats(redis_up, outage) ==
    LET cached_stats == get_from_cache(redis_up, StatsKey)
        total_tasks == CountAll
        completed_tasks == CountCompleted
        pending_tasks == total_tasks - completed_tasks
        stats == [total_tasks |-> total_tasks, completed_tasks |-> completed_tasks,
                  pending_tasks |-> pending_tasks,
                  completion_rate |-> CompletionRate(completed_tasks, total_tasks)]
    IN  /\ lastReq.n < MaxRequests
        /\ lastReq' = Req("STATS", 0, redis_up, outage)
        /\ prev' = NoPrev
        /\ IF cached_stats.t = "exception"
           THEN /\ resp' = ServerError
                /\ cache' = cache
           ELSE IF Truthy(cached_stats)
           THEN /\ resp' = Response(200, "stats", cached_stats.v)
                /\ cache' = cache
           ELSE IF outage = "down"
           THEN /\ resp' = ServerError
                /\ cache' = cache
           ELSE /\ cache' = set_cache(redis_up, cache, StatsKey, json_dumps_stats(stats),
                                      STATS_EXPIRY)
                /\ resp' = Response(200, "stats", stats)
        /\ sessions' = get_db(sessions)
        /\ cacheOutage' = NoteCache(redis_up)
        /\ UNCHANGED <<store, nextId, now, redis_client, blindDeletes, firstGet, pending,
                       notFound>>

\* GET /health.  The handler makes its own session; outage "down": the
\* statement db.execute("SELECT 1") raises, the except clause takes over and
\* db.close() is not reached.
health_check(outage) ==
    LET raised == outage = "down"
        health_status ==
            [status |-> IF raised THEN "degraded" ELSE "healthy",
             timestamp |-> now,
             database |-> IF raised THEN "unhealthy" ELSE "healthy",
             redis |-> IF redis_client # None THEN "healthy" ELSE "unavailable"]
    IN  /\ lastReq.n < MaxRequests
        /\ lastReq' = Req("HEALTH", 0, FALSE, outage)
        /\ prev' = NoPrev
        /\ resp' = Response(200, "health", health_status)
        /\ sessions' = IF raised THEN SessionLocal(sessions)
                       ELSE db_close(SessionLocal(sessions))
        /\ UNCHANGED <<store, nextId, now, redis_client, cache, blindDeletes, firstGet,
                       pending, notFound, cacheOutage>>

\* ------------------------------------------------------------- environment
\* The wall clock advances.
Tick ==
    /\ now < MaxClock
    /\ now' = now + 1
    /\ UNCHANGED <<store, nextId, redis_client, cache, lastReq, resp, prev,
                   blindDeletes, firstGet, sessions, pending, notFound, cacheOutage>>

\* The Redis server drops an entry whose expiry has passed.
Expire(k) ==
    /\ k \in DOMAIN cache
    /\ cache' = [x \in DOMAIN cache \ {k} |-> cache[x]]
    /\ firstGet' = [id \in TaskIds |->
                      IF k = get_cache_key(TaskKey(id)) THEN NoTask ELSE firstGet[id]]
    /\ UNCHANGED <<store, nextId, now, redis_client, lastReq, resp, prev, blindDeletes,
                   sessions, pending, notFound, cacheOutage>>

\* Whether the Redis server answers during a request (nothing to answer
\* without a client).
RedisStates == IF redis_client = None THEN {FALSE} ELSE BOOLEAN

\* When the store stops answering during a request: not at all ("none"),
\* before the handler has committed anything ("down": at its query or at its
\* commit) or, where the handler refreshes the row it committed, between the
\* commit and the refresh ("refresh").
ReadOutages == {"none", "down"}
CreateOutages(body) ==
    IF ValidTaskCreate(body) THEN {"none", "down", "refresh"} ELSE {"none"}
UpdateOutages(task_id) ==
    IF task_id \in StoredIds THEN {"none", "down", "refresh"} ELSE {"none", "down"}
DeleteOutages(task_id) == {"none", "down"}

Next ==
    \/ \E p \in ListParams, redis_up \in RedisStates, outage \in ReadOutages :
          get_tasks(p[1], p[2], redis_up, outage)
    \/ \E id \in TaskIds, redis_up \in RedisStates, outage \in ReadOutages :
          get_task(id, redis_up, outage)
    \/ \E body \in CreateBodies, redis_up \in RedisStates :
          \E outage \in CreateOutages(body) : create_task(body, redis_up, outage)
    \/ \E id \in TaskIds, body \in UpdateBodies, redis_up \in RedisStates :
          \E outage \in UpdateOutages(id) : update_task(id, body, redis_up, outage)
    \/ \E id \in TaskIds, redis_up \in RedisStates :
          \E outage \in DeleteOutages(id) : delete_task(id, redis_up, outage)
    \/ \E redis_up \in RedisStates, outage \in ReadOutages : get_stats(redis_up, outage)
    \/ \E outage \in ReadOutages : health_check(outage)
    \/ Tick
    \/ \E k \in DOMAIN cache : Expire(k)

Spec == Init /\ [][Next]_vars

\* ------------------------------------------------------- concurrent requests
\* Requests served by several workers on one store and one Redis server: a
\* read that misses the cache is two steps, its store query and, later, its
\* set_cache and return; any request of another worker can be served in
\* between.  The other handlers stay single steps: a write's commit and its
\* invalidation are not separated.

\* get_task up to its store query, on a cache miss that finds the row.
get_task_query(task_id, redis_up) ==
    LET cache_key == TaskKey(task_id)
        cached_task == get_from_cache(redis_up, cache_key)
        i == QueryFirst(task_id)
        task_data == TaskDict(store[i])
        read == [op |-> "GET", id |-> task_id, key |-> cache_key,
                 data |-> json_dumps_task(task_data),
                 body |-> [t |-> "task", v |-> task_data]]
    IN  /\ lastReq.n + Cardinality(pending) < MaxRequests
        /\ Cardinality(pending) < MaxReaders
        /\ cached_task.t # "exception" /\ ~Truthy(cached_task)
        /\ i # 0
        /\ read \notin pending
        /\ pending' = pending \cup {read}
        /\ sessions' = SessionLocal(sessions)
        /\ cacheOutage' = NoteCache(redis_up)
        /\ UNCHANGED <<store, nextId, now, redis_client, cache, lastReq, resp, prev,
                       blindDeletes, firstGet, notFound>>

\* get_tasks up to its store query, on a cache miss.
get_tasks_query(skip, limit, redis_up) ==
    LET cache_key == ListKey(skip, limit)
        cached_tasks == get_from_cache(redis_up, cache_key)
        tasks == QueryAll(skip, limit)
        tasks_data == [i \in 1..Len(tasks) |-> TaskDict(tasks[i])]
        read == [op |-> "LIST", id |-> 0, key |-> cache_key,
                 data |-> json_dumps_list(tasks_data),
                 body |-> [t |-> "list", v |-> tasks_data]]
    IN  /\ lastReq.n + Cardinality(pending) < MaxRequests
        /\ Cardinality(pending) < MaxReaders
        /\ cached_tasks.t # "exception" /\ ~Truthy(cached_tasks)
        /\ read \notin pending
        /\ pending' = pending \cup {read}
        /\ sessions' = SessionLocal(sessions)
        /\ cacheOutage' = NoteCache(redis_up)
        /\ UNCHANGED <<store, nextId, now, redis_client, cache, lastReq, resp, prev,
                       blindDeletes, firstGet, notFound>>

\* The rest of a read in flight: set_cache(cache_key, data, 300), the return
\* and, in get_db, the close of its session.
read_populate(read, redis_up) ==
    /\ read \in pending
    /\ lastReq.n < MaxRequests
    /\ cache' = set_cache(redis_up, cache, read.key, read.data, TASK_EXPIRY)
    /\ resp' = Response(200, read.body.t, read.body.v)
    /\ lastReq' = Req(read.op, read.id, redis_up, "none")
    /\ prev' = NoPrev
    /\ firstGet' = IF read.op = "GET" THEN NoteGet(read.id, redis_up, resp')
                   ELSE firstGet
    /\ pending' = pending \ {read}
    /\ sessions' = db_close(sessions)
    /\ cacheOutage' = NoteCache(redis_up)
    /\ UNCHANGED <<store, nextId, now, redis_client, blindDeletes, notFound>>

\* The reads in flight count among the MaxRequests requests of a run.
ConcNext ==
    \/ /\ Next
       /\ lastReq'.n = lastReq.n \/ lastReq'.n + Cardinality(pending) <= MaxRequests
    \/ \E id \in TaskIds, redis_up \in RedisStates : get_task_query(id, redis_up)
    \/ \E p \in ListParams, redis_up \in RedisStates :
          get_tasks_query(p[1], p[2], redis_up)
    \/ \E read \in pending, redis_up \in RedisStates : read_populate(read, redis_up)

ConcSpec == Init /\ [][ConcNext]_vars

\* ------------------------------------------------------------------ claims
\* The row with this id in a table.
RowOf(rows, task_id) == rows[CHOOSE i \in 1..Len(rows) : rows[i].id = task_id]

\* A row as the API returns it.
ApiTask(row) ==
    [id |-> row.id, title |-> row.title, description |-> row.description,
     completed |-> (row.completed = "true"),
     created_at |-> row.created_at, updated_at |-> row.updated_at]

\* The row of the table with this id, as the API returns it.
StoredTask(task_id) == ApiTask(RowOf(store, task_id))

\* C1: requests served one at a time, the cache reachable during both: the GET
\* of an id that follows a PUT of that id answered 200 returns the row the
\* store holds after the PUT (and 200 whenever the store is reachable), whether
\* or not the id was cached before the PUT.
C1_GetAfterPutReadsStore ==
    [][\A id \in TaskIds :
         (/\ lastReq.op = "PUT" /\ lastReq.id = id /\ resp.status = 200
          /\ lastReq.cache_ok /\ CacheReachable(TRUE))
         => \A outage \in ReadOutages :
              get_task(id, TRUE, outage) =>
                /\ resp'.status = IF outage = "none" THEN 200 ELSE 500
                /\ resp'.status = 200 =>
                     /\ resp'.body.t = "task"
                     /\ resp'.body.v = StoredTask(id)]_vars

\* C1 witness: a GET answered 200 with completed true, right after a PUT of
\* the same id that found the id cached.
C1_Witness ==
    /\ lastReq.op = "GET" /\ lastReq.cache_ok /\ resp.status = 200
    /\ prev.op = "PUT" /\ prev.id = lastReq.id /\ prev.was_cached
    /\ resp.body.v.completed = TRUE
    /\ \E i \in 1..Len(store) : store[i].id = lastReq.id /\ store[i].completed = "true"

\* Number of rows of the table whose completed flag is set.
CompletedInStore == Cardinality({i \in 1..Len(store) : store[i].completed = "true"})

\* C2 as claimed: whatever was served before, GET /api/stats returns the
\* counts of the tasks now in the store.
C2_StatsMatchStore ==
    (lastReq.op = "STATS" /\ resp.status = 200)
    => /\ resp.body.v.total_tasks = Len(store)
       /\ resp.body.v.completed_tasks = CompletedInStore
       /\ resp.body.v.pending_tasks = Len(store) - CompletedInStore

\* C2 amended: GET /api/stats computes the counts from the store when it finds
\* no cached statistics (none stored, expired, cache unreachable) and caches
\* them for 60 seconds; otherwise it returns the cached statistics unchanged;
\* every answer has pending_tasks = total_tasks - completed_tasks.
C2_StatsFromStoreOrCache ==
    [][\A redis_up \in BOOLEAN, outage \in ReadOutages :
        get_stats(redis_up, outage) =>
        LET k == <<"tasks", "stats">>
            hit == CacheReachable(redis_up) /\ k \in DOMAIN cache
            db_up == outage = "none"
        IN  /\ hit => /\ resp'.status = 200
                      /\ resp'.body.v = cache[k].data.v
                      /\ cache' = cache
            /\ (~hit /\ db_up) =>
                      /\ resp'.status = 200
                      /\ resp'.body.v.total_tasks = Len(store)
                      /\ resp'.body.v.completed_tasks = CompletedInStore
                      /\ CacheReachable(redis_up) =>
                           /\ k \in DOMAIN cache'
                           /\ cache'[k].ttl = 60
                           /\ cache'[k].data.v = resp'.body.v
            /\ (~hit /\ ~db_up) => resp'.status = 500
            /\ resp'.status = 200 =>
                 resp'.body.v.pending_tasks =
                     resp'.body.v.total_tasks - resp'.body.v.completed_tasks
            /\ store' = store]_vars

\* C2 witness: statistics served from the cache that differ from the store.
C2_Witness ==
    /\ lastReq.op = "STATS" /\ resp.status = 200 /\ lastReq.cache_ok
    /\ resp.body.v.total_tasks # Len(store)
    /\ resp.body.v.pending_tasks
         = resp.body.v.total_tasks - resp.body.v.completed_tasks

\* C3 as claimed: with the store reachable, a POST whose title is missing or
\* empty is answered 422 and creates no row.
C3_EmptyTitleRejected ==
    [][\A body \in CreateBodies, redis_up \in BOOLEAN :
         (body.title \in {Missing, ""} /\ create_task(body, redis_up, "none"))
         => (resp'.status = 422 /\ store' = store)]_vars

\* C4 as claimed: with the store reachable, a PUT on an existing task whose
\* title is the empty string is answered 422 and leaves the row as it was (so
\* that no PUT gives a stored task an empty title).
C4_EmptyTitleUpdateRejected ==
    [][\A id \in StoredIds, body \in UpdateBodies, redis_up \in BOOLEAN :
         (body.title = "" /\ update_task(id, body, redis_up, "none"))
         => (resp'.status = 422 /\ store' = store)]_vars

\* C5 as claimed: with the store reachable, GET, PUT and DELETE of an id that
\* is not in the store are each answered 404, and PUT and DELETE then leave
\* store and cache as they were.  (id and redis_up are those of the request
\* the step serves, as lastReq' records them.)
C5_AbsentIdIs404 ==
    [][(lastReq'.n # lastReq.n /\ lastReq'.id \in TaskIds \ StoredIds) =>
        LET id == lastReq'.id
            redis_up == lastReq'.cache_ok
        IN  /\ get_task(id, redis_up, "none") => resp'.status = 404
            /\ \A body \in UpdateBodies :
                 update_task(id, body, redis_up, "none")
                 => (resp'.status = 404 /\ store' = store /\ cache' = cache)
            /\ delete_task(id, redis_up, "none")
                 => (resp'.status = 404 /\ store' = store /\ cache' = cache)]_vars

\* C5 amended: as claimed for PUT and DELETE; GET of an absent id is answered
\* 404 unless the cache is reachable and still holds an entry for the id, and
\* the cache holds an entry for an absent id only when the DELETE of that id
\* ran while the cache was unreachable, its invalidation a no-op.
C5_AbsentIdIs404UnlessStaleEntry ==
    /\ [][(lastReq'.n # lastReq.n /\ lastReq'.id \in TaskIds \ StoredIds) =>
           LET id == lastReq'.id
               redis_up == lastReq'.cache_ok
           IN  /\ (get_task(id, redis_up, "none")
                   /\ ~(redis_up /\ <<"tasks", "task", Str(id)>> \in DOMAIN cache))
                  => (resp'.status = 404 /\ store' = store /\ cache' = cache)
               /\ \A body \in UpdateBodies :
                    update_task(id, body, redis_up, "none")
                    => (resp'.status = 404 /\ store' = store /\ cache' = cache)
               /\ delete_task(id, redis_up, "none")
                    => (resp'.status = 404 /\ store' = store /\ cache' = cache)]_vars
    /\ [](\A id \in TaskIds \ StoredIds :
            <<"tasks", "task", Str(id)>> \in DOMAIN cache => id \in blindDeletes)

\* C5 witness: GET answered 404 with the cache reachable, right after the
\* DELETE of the same id succeeded and found the id cached.
C5_Witness ==
    /\ lastReq.op = "GET" /\ lastReq.cache_ok /\ resp.status = 404
    /\ prev.op = "DELETE" /\ prev.id = lastReq.id /\ prev.was_cached
    /\ lastReq.id \notin StoredIds

\* What a service without any cache answers to the three reads, the store
\* answering (db_up) or not.
NoCacheList(skip, limit, db_up) ==
    LET last == IF skip + limit < Len(store) THEN skip + limit ELSE Len(store)
        rows == SubSeq(store, skip + 1, last)
    IN  IF db_up
        THEN [status |-> 200,
              body |-> [t |-> "list", v |-> [i \in 1..Len(rows) |-> ApiTask(rows[i])]]]
        ELSE [status |-> 500, body |-> [t |-> "detail", v |-> "Internal Server Error"]]

NoCacheGet(task_id, db_up) ==
    IF ~db_up
    THEN [status |-> 500, body |-> [t |-> "detail", v |-> "Internal Server Error"]]
    ELSE IF \A i \in 1..Len(store) : store[i].id # task_id
    THEN [status |-> 404, body |-> [t |-> "detail", v |-> "Task not found"]]
    ELSE [status |-> 200, body |-> [t |-> "task", v |-> StoredTask(task_id)]]

NoCacheStats(db_up) ==
    IF db_up
    THEN [status |-> 200,
          body |-> [t |-> "stats",
                    v |-> [total_tasks |-> Len(store),
                           completed_tasks |-> CompletedInStore,
                           pending_tasks |-> Len(store) - CompletedInStore,
                           completion_rate |->
                               IF Len(store) = 0 THEN 0
                               ELSE (20000 * CompletedInStore + Len(store))
                                        \div (2 * Len(store))]]]
    ELSE [status |-> 500, body |-> [t |-> "detail", v |-> "Internal Server Error"]]

\* C6: a request served while the cache is unavailable (no client, or every
\* call on it failing) gets the status and body a service without cache gives
\* from the store: reads answer from the current rows, writes succeed or fail
\* with the store alone and return the row they wrote; the cache is not
\* touched and none of its errors becomes a failed request.
C6_NoCacheEquivalence ==
    [][(lastReq'.n # lastReq.n /\ ~lastReq'.cache_ok) =>
        LET id == lastReq'.id
            db_up == lastReq'.db_ok
            During(outages) == {o \in outages : (o = "none") = db_up}
        IN
        /\ lastReq'.op = "LIST" =>
             \A p \in ListParams, outage \in During(ReadOutages) :
               get_tasks(p[1], p[2], FALSE, outage)
               => resp' = NoCacheList(p[1], p[2], db_up)
        /\ lastReq'.op = "GET" =>
             \A outage \in During(ReadOutages) :
               get_task(id, FALSE, outage) => resp' = NoCacheGet(id, db_up)
        /\ lastReq'.op = "STATS" =>
             \A outage \in During(ReadOutages) :
               get_stats(FALSE, outage) => resp' = NoCacheStats(db_up)
        /\ lastReq'.op = "POST" =>
             \A body \in CreateBodies, outage \in During({"none", "down", "refresh"}) :
               create_task(body, FALSE, outage) =>
                 /\ resp'.status = IF body.title = Missing THEN 422
                                   ELSE IF outage = "none" THEN 201 ELSE 500
                 /\ resp'.status = 201 =>
                      /\ resp'.body.v = ApiTask(store'[Len(store')])
                      /\ resp'.body.v.id \notin StoredIds
                      /\ resp'.body.v.title = body.title
                      /\ resp'.body.v.description = body.description
        /\ lastReq'.op = "PUT" =>
             \A body \in UpdateBodies, outage \in During({"none", "down", "refresh"}) :
               update_task(id, body, FALSE, outage) =>
                 /\ resp'.status = IF outage = "down" THEN 500
                                   ELSE IF id \notin StoredIds THEN 404
                                   ELSE IF outage = "none" THEN 200 ELSE 500
                 /\ resp'.status = 200 => resp'.body.v = ApiTask(RowOf(store', id))
        /\ lastReq'.op = "DELETE" =>
             \A outage \in During({"none", "down"}) :
               delete_task(id, FALSE, outage) =>
                 /\ resp'.status = IF outage = "down" THEN 500
                                   ELSE IF id \notin StoredIds THEN 404
                                   ELSE 200
                 /\ resp'.status = 200 => \A i \in 1..Len(store') : store'[i].id # id
        /\ cache' = cache]_vars

\* C6 witness: a GET answered 200 from the store while the cache, which holds
\* an entry for the id, is unreachable.
C6_Witness ==
    /\ lastReq.op = "GET" /\ ~lastReq.cache_ok /\ lastReq.had_entry
    /\ resp.status = 200
    /\ resp.body.v = StoredTask(lastReq.id)

\* C7 as claimed: a create, update or delete (here with a title that is not
\* empty) answered with an error leaves the table as it was, and one that
\* changed the table is answered with success.
C7_FailedWriteChangesNothing ==
    [][(/\ lastReq'.n # lastReq.n /\ lastReq'.op \in {"POST", "PUT", "DELETE"}
        /\ \A i \in 1..Len(store') : store'[i].title # "")
       => /\ resp'.status >= 400 => store' = store
          /\ store' # store => resp'.status \in {200, 201}]_vars

\* C8: with the cache reachable, once a GET of an id was answered 200, every
\* later GET of that id before the entry expires and before any write is
\* answered 200 with the same content, whether or not the store is reachable,
\* and reads nothing from the store.
C8_RepeatedGetSameContent ==
    [][\A id \in TaskIds, outage \in ReadOutages :
         (CacheReachable(TRUE) /\ firstGet[id].t = "task" /\ get_task(id, TRUE, outage))
         => /\ resp'.status = 200
            /\ resp'.body = firstGet[id]
            /\ store' = store /\ cache' = cache]_vars

\* C8 witness: a GET answered 200 with the content of the first GET while the
\* store is unreachable.
C8_Witness ==
    /\ lastReq.op = "GET" /\ lastReq.cache_ok /\ ~lastReq.db_ok /\ lastReq.had_entry
    /\ resp.status = 200
    /\ resp.body = firstGet[lastReq.id]

\* C9 as claimed: a task created with title A and description B and then read
\* by the id returned has title A, description B, completed false and
\* created_at equal to updated_at.
C9_CreateGetRoundTrip ==
    [][(/\ lastReq.op = "POST" /\ resp.status = 201
        /\ resp.body.v.title = "A" /\ resp.body.v.description = "B"
        /\ \E redis_up \in BOOLEAN : get_task(resp.body.v.id, redis_up, "none"))
       => /\ resp'.status = 200
          /\ resp'.body.v.title = "A"
          /\ resp'.body.v.description = "B"
          /\ resp'.body.v.completed = FALSE
          /\ resp'.body.v.created_at = resp'.body.v.updated_at]_vars

\* C10 as claimed: a PUT with only completed=true on an existing task leaves
\* id, title, description and created_at as they were, sets completed, and
\* sets updated_at to a value strictly greater than before (checked on tasks
\* whose title is not empty and where the clock can still advance).
C10_PartialUpdateAdvancesUpdatedAt ==
    [][\A id \in StoredIds, redis_up \in BOOLEAN :
         (/\ now < MaxClock /\ RowOf(store, id).title # ""
          /\ update_task(id, Body(None, None, "True"), redis_up, "none"))
         => LET old == RowOf(store, id)
                new == RowOf(store', id)
            IN  /\ resp'.status = 200
                /\ new.id = old.id /\ new.title = old.title
                /\ new.description = old.description
                /\ new.created_at = old.created_at
                /\ new.completed = "true"
                /\ new.updated_at > old.updated_at]_vars

\* C12: in every create, update and delete request the cache is invalidated
\* only after the commit of that request has succeeded: a write step that
\* changes the cache is answered 200 or 201 and the table holds its write; a
\* request answered 404 or 422 and a request whose commit failed (the store
\* down before the commit completes) leave the cache exactly as it was.
C12_InvalidationOnlyAfterCommit ==
    [][(lastReq'.n # lastReq.n /\ lastReq'.op \in {"POST", "PUT", "DELETE"}) =>
        LET id == lastReq'.id
        IN  /\ cache' # cache =>
                 /\ resp'.status \in {200, 201}
                 /\ lastReq'.op = "POST" =>
                      resp'.body.v = ApiTask(store'[Len(store')])
                 /\ lastReq'.op = "PUT" => resp'.body.v = ApiTask(RowOf(store', id))
                 /\ lastReq'.op = "DELETE" =>
                      \A i \in 1..Len(store') : store'[i].id # id
            /\ resp'.status \in {404, 422} => cache' = cache
            /\ \A redis_up \in BOOLEAN :
                 /\ \A body \in CreateBodies :
                      create_task(body, redis_up, "down")
                      => (cache' = cache /\ store' = store)
                 /\ \A body \in UpdateBodies :
                      update_task(id, body, redis_up, "down")
                      => (cache' = cache /\ store' = store)
                 /\ delete_task(id, redis_up, "down")
                      => (cache' = cache /\ store' = store)]_vars

\* C12 witness: a DELETE whose commit failed, served with the cache reachable:
\* the task is still stored and its cache entry is still there.
C12_Witness ==
    /\ lastReq.op = "DELETE" /\ resp.status = 500 /\ lastReq.cache_ok
    /\ lastReq.had_entry
    /\ lastReq.id \in StoredIds
    /\ <<"tasks", "task", Str(lastReq.id)>> \in DOMAIN cache

\* C13 as claimed: for every (skip, limit), a list request served with the
\* cache reachable that finds an entry under its key is answered 200 with
\* that entry, whatever list a list request stored there (the empty list
\* included), and does not query the store: it is answered also with the
\* store down, and store and cache stay as they were.
C13_ListHitServesSnapshot ==
    [][\A p \in ListParams, outage \in ReadOutages :
         LET k == get_cache_key(ListKey(p[1], p[2]))
         IN  (/\ redis_client # None /\ k \in DOMAIN cache
              /\ get_tasks(p[1], p[2], TRUE, outage))
             => /\ resp'.status = 200
                /\ resp'.body.t = "list"
                /\ resp'.body.v =
                     [i \in 1..Len(cache[k].data.v) |-> LoadTask(cache[k].data.v[i])]
                /\ cache' = cache /\ store' = store]_vars

\* C14: with the cache reachable, right after a create, update or delete
\* answered 200 or 201 the cache holds no entry under any all:{skip}:{limit}
\* key; right after such an update or delete of id it holds no entry under
\* task:{id}; the entries of every other task id are the ones held before.
C14_WriteInvalidates ==
    [][(/\ lastReq'.n # lastReq.n /\ lastReq'.op \in {"POST", "PUT", "DELETE"}
        /\ lastReq'.cache_ok /\ resp'.status \in {200, 201})
       => /\ \A k \in DOMAIN cache' : k[2] # "all"
          /\ lastReq'.op \in {"PUT", "DELETE"} =>
               <<"tasks", "task", Str(lastReq'.id)>> \notin DOMAIN cache'
          /\ \A j \in TaskIds \ {lastReq'.id} :
               LET k == <<"tasks", "task", Str(j)>>
               IN  /\ k \in DOMAIN cache' <=> k \in DOMAIN cache
                   /\ k \in DOMAIN cache => cache'[k] = cache[k]]_vars

\* C14 witness: a PUT or DELETE answered 200 with the cache reachable, the
\* entry of another task id still in the cache.
C14_Witness ==
    /\ lastReq.op \in {"PUT", "DELETE"} /\ resp.status = 200 /\ lastReq.cache_ok
    /\ \E j \in TaskIds \ {lastReq.id} : <<"tasks", "task", Str(j)>> \in DOMAIN cache
    /\ \A k \in DOMAIN cache : k[2] # "all"

\* C15: a GET of an id answered 404 leaves the cache as it was; every entry
\* under a task:{id} key holds a task with that id, none the absence of one;
\* and the GET that follows the create of a task, the store reachable, is
\* answered 200 with the stored task, also when an earlier GET of that id was
\* answered 404.
C15_NotFoundNotCached ==
    /\ [][(lastReq'.n # lastReq.n /\ lastReq'.op = "GET") =>
           /\ resp'.status = 404 => cache' = cache
           /\ (/\ lastReq.op = "POST" /\ resp.status = 201
               /\ lastReq'.id = resp.body.v.id /\ lastReq'.db_ok)
              => /\ resp'.status = 200
                 /\ resp'.body.v = StoredTask(lastReq'.id)]_vars
    /\ [](\A id \in TaskIds :
            LET k == <<"tasks", "task", Str(id)>>
            IN  k \in DOMAIN cache =>
                  (cache[k].data.t = "dict" /\ cache[k].data.v.id = id))

\* C15 witness: a GET answered 200, with the cache reachable, for an id that
\* an earlier GET was answered 404 for.
C15_Witness ==
    /\ lastReq.op = "GET" /\ resp.status = 200 /\ lastReq.cache_ok
    /\ lastReq.id \in notFound
    /\ resp.body.v = StoredTask(lastReq.id)

\* C16 as claimed: whenever a request has completed, every store session a
\* request opened is closed, whichever endpoint served it and whether it
\* succeeded or failed (the health check with its store query failing
\* included).
C16_SessionsClosed == sessions = 0

\* C17: in every state the ids of the rows are pairwise distinct and every
\* row has created_at <= updated_at (the clock of the model never goes
\* backwards); no step changes the id or the created_at of a row: an update
\* leaves both as they were in the row it changes, a create gives its row an
\* id no row has or had and the clock reading as created_at, and every row a
\* create, update or delete does not address stays as it was.
C17_IdAndCreatedAtImmutable ==
    /\ [](/\ \A i, j \in 1..Len(store) : i # j => store[i].id # store[j].id
          /\ \A i \in 1..Len(store) :
               /\ store[i].created_at <= store[i].updated_at
               /\ store[i].id < nextId)
    /\ [][/\ \A id \in StoredIds :
               LET later == {i \in 1..Len(store') : store'[i].id = id}
               IN  \A i \in later :
                     /\ store'[i].created_at = RowOf(store, id).created_at
                     /\ (lastReq'.n = lastReq.n \/ lastReq'.id # id)
                        => store'[i] = RowOf(store, id)
          /\ lastReq'.op = "PUT" =>
               /\ Len(store') = Len(store)
               /\ \A i \in 1..Len(store) :
                    /\ store'[i].id = store[i].id
                    /\ store'[i].created_at = store[i].created_at
          /\ Len(store') > Len(store) =>
               /\ store'[Len(store')].id \notin StoredIds
               /\ store'[Len(store')].id = nextId
               /\ store'[Len(store')].created_at = now
               /\ nextId' > nextId]_vars

\* C17 witness: a PUT answered 200 has changed a row: updated_at is later
\* than created_at.
C17_Witness ==
    /\ lastReq.op = "PUT" /\ resp.status = 200
    /\ \E i \in 1..Len(store) :
         /\ store[i].id = lastReq.id
         /\ store[i].completed = "true"
         /\ store[i].created_at < store[i].updated_at

\* C18 as claimed: requests are served one at a time; as long as the Redis
\* server has answered during every request, every entry under a task:{id}
\* key is the current row of that id, and every entry under an
\* all:{skip}:{limit} key is what the query with that skip and limit returns
\* now (checked in the states where no stored title is empty).
C18_CacheCoherent ==
    (/\ redis_client # None /\ ~cacheOutage
     /\ \A i \in 1..Len(store) : store[i].title # "") =>
        /\ \A id \in TaskIds :
             LET k == <<"tasks", "task", Str(id)>>
             IN  k \in DOMAIN cache =>
                   /\ id \in StoredIds
                   /\ LoadTask(cache[k].data.v) = StoredTask(id)
        /\ \A p \in ListParams :
             LET k == get_cache_key(ListKey(p[1], p[2]))
                 rows == QueryAll(p[1], p[2])
             IN  k \in DOMAIN cache =>
                   [i \in 1..Len(cache[k].data.v) |-> LoadTask(cache[k].data.v[i])]
                     = [i \in 1..Len(rows) |-> ApiTask(rows[i])]

\* A cache entry that holds a task and differs from the store: a task entry
\* whose id is not stored or whose content is not the current row, a list
\* entry with at least one task that is not what its query returns now.
StaleEntry(k) ==
    /\ k \in DOMAIN cache
    /\ \/ /\ k[2] = "task"
          /\ LET id == cache[k].data.v.id
             IN  id \notin StoredIds \/ LoadTask(cache[k].data.v) # StoredTask(id)
       \/ /\ k[2] = "all"
          /\ Len(cache[k].data.v) > 0
          /\ \E p \in ListParams :
               /\ k = get_cache_key(ListKey(p[1], p[2]))
               /\ LET rows == QueryAll(p[1], p[2])
                  IN  [i \in 1..Len(cache[k].data.v) |-> LoadTask(cache[k].data.v[i])]
                        # [i \in 1..Len(rows) |-> ApiTask(rows[i])]

====
